---------------------------- MODULE Spec2Model ----------------------------
(* A model of src/backend/index.js: the Express application that serves the *)
(* quotes and todos collections through mongoose, and its bootstrap.        *)
(*                                                                          *)
(* A request handler is an async function: the part up to its await is one  *)
(* action (the route action), the awaited mongoose call is a second action  *)
(* (Storage, or StorageThrows when it rejects) and the part after the await *)
(* ends with the response being written (Respond).  Handlers of different   *)
(* requests interleave at these points.                                     *)
EXTENDS Integers, Sequences, FiniteSets, TLC

\* ------------------------------------------------------------------ bounds
MaxInFlight == 2    \* requests the model lets be in flight together
MaxOid == 2         \* todo identifiers the model lets be generated
MaxClock == 1       \* last reading of the millisecond clock in the model
MaxQuotes == 2      \* quote documents the model lets be generated
MaxBatch == 2       \* longest {quotes:[...]} array a request carries

VARIABLES
    env,          \* process.env: [MONGO_URI]
    phase,        \* "STARTING", "CONNECTING", "RUNNING", "ABORTED", "CRASHED"
    connects,     \* calls of mongoose.connect so far
    connection,   \* mongoose.connection: "disconnected", "connecting", "connected"
    listening,    \* whether app.listen has been called
    now,          \* Date.now(), in milliseconds
    todos,        \* the todos collection: a set of documents
    quotes,       \* the quotes collection: a set of documents
    nextOid,      \* the next ObjectId mongoose generates for a todo
    nextQid,      \* the next ObjectId mongoose generates for a quote
    requests,     \* the in-flight requests: slot -> handler position
    lastCreate,   \* history: the Todo.create no other request has followed
    createdBefore \* history: <<a, b>>: a's create was over when b's began

vars == <<env, phase, connects, connection, listening, now, todos, quotes, nextOid,
          nextQid, requests, lastCreate, createdBefore>>

Slots == 1..MaxInFlight

\* ------------------------------------------------------- JavaScript values
Undefined == [t |-> "undefined"]
Null == [t |-> "null"]
Str(s) == [t |-> "string", s |-> s]
Num(n) == [t |-> "number", n |-> n]
Bool(b) == [t |-> "boolean", b |-> b]

\* typeof v
TypeOf(v) == IF v.t = "null" THEN "object" ELSE v.t

\* ToBoolean(v): what `v || x` and `!v` test
Truthy(v) ==
    CASE v.t = "string" -> v.s # <<>>
      [] v.t = "number" -> v.n # 0
      [] v.t = "boolean" -> v.b
      [] OTHER -> FALSE

\* v || ''
OrEmpty(v) == IF Truthy(v) THEN v ELSE Str(<<>>)

IsSpace(c) == c = " "

\* String.prototype.trim on a sequence of characters
RECURSIVE TrimStart(_)
TrimStart(s) ==
    IF s # <<>> /\ IsSpace(Head(s)) THEN TrimStart(Tail(s)) ELSE s

RECURSIVE TrimEnd(_)
TrimEnd(s) ==
    IF s # <<>> /\ IsSpace(s[Len(s)]) THEN TrimEnd(SubSeq(s, 1, Len(s) - 1))
    ELSE s

Trim(s) == TrimEnd(TrimStart(s))

\* (v || '').trim(): a TypeError when the value has no trim method
TrimOrThrow(v) ==
    IF OrEmpty(v).t = "string"
    THEN [threw |-> FALSE, text |-> Trim(OrEmpty(v).s)]
    ELSE [threw |-> TRUE, text |-> <<>>]

\* ------------------------------------------------------- request inputs
\* Values a JSON body carries as text: absent, blank, padded, plain, a number.
TextValues == {Undefined, Str(<<" ">>), Str(<<" ", "a", " ">>), Num(5)}

PatchTextValues == {Undefined, Str(<<" ">>), Str(<<"b", " ">>), Num(5)}

\* Values a JSON body carries as completed.
CompletedValues == {Undefined, Bool(TRUE), Bool(FALSE), Str(<<"y">>)}

\* The :id path parameter: the hex string of an ObjectId, or anything else.
IdParams ==
    {[wellFormed |-> TRUE, oid |-> i] : i \in 1..MaxOid}
        \cup {[wellFormed |-> FALSE, oid |-> 0]}

\* ------------------------------------------------------- mongoose schemas
Digits == <<"0", "1", "2", "3", "4", "5", "6", "7", "8", "9">>

\* SchemaString cast: strings stay, numbers print, the rest is a CastError.
CastString(v) ==
    CASE v.t = "string" -> [ok |-> TRUE, s |-> v.s]
      [] v.t = "number" -> [ok |-> TRUE, s |-> <<Digits[v.n + 1]>>]
      [] OTHER -> [ok |-> FALSE, s |-> <<>>]

\* text: { type: String, required: true, trim: true }: the value a document
\* holds after the cast and the trim setter, and whether it validates.
SchemaText(v) ==
    IF v.t \in {"undefined", "null"} THEN [ok |-> FALSE, s |-> <<>>]
    ELSE LET c == CastString(v) IN
         [ok |-> c.ok /\ Trim(c.s) # <<>>, s |-> Trim(c.s)]

\* completed: { type: Boolean, default: false }
CompletedDefault == FALSE

\* A new todo that starts out completed.
NewTodoDone(oid, text, ts) ==
    [id |-> oid, text |-> text, completed |-> TRUE,
     createdAt |-> ts, updatedAt |-> ts]

\* { timestamps: true }: a new document's createdAt and updatedAt
NewTodo(oid, text, ts) ==
    [id |-> oid, text |-> text, completed |-> CompletedDefault,
     createdAt |-> ts, updatedAt |-> ts]

\* author: { type: String, trim: true }
SchemaAuthor(v) ==
    IF v.t \in {"undefined", "null"} THEN [ok |-> TRUE, v |-> Undefined]
    ELSE LET c == CastString(v) IN [ok |-> c.ok, v |-> Str(Trim(c.s))]

NewQuote(qid, text, author, ts) ==
    [id |-> qid, text |-> text, author |-> author,
     createdAt |-> ts, updatedAt |-> ts]

\* ------------------------------------------------------- storage calls
\* Each gives the call's outcome ("doc", "null" or "throws"), the document
\* it resolves to, and the collection it leaves.

Stored(store, oid) == {d \in store : d.id = oid}

\* Todo.find().sort({ createdAt: -1 }): every order the sort allows; the
\* order of documents with one createdAt is the database's choice.
RECURSIVE SortedByCreatedAtDesc(_)
SortedByCreatedAtDesc(store) ==
    IF store = {} THEN {<<>>}
    ELSE UNION {{<<d>> \o rest : rest \in SortedByCreatedAtDesc(store \ {d})} :
                d \in {x \in store : \A y \in store : x.createdAt >= y.createdAt}}

\* A replacement instead of an update: a path the updates leave out falls
\* back to its default.
ApplyUpdatesReplacing(d, updates, ts) ==
    [d EXCEPT !.text = IF updates.text.t = "undefined" THEN @
                       ELSE SchemaText(updates.text).s,
              !.completed = IF updates.completed.t = "undefined"
                            THEN CompletedDefault
                            ELSE updates.completed.b,
              !.updatedAt = ts]

\* The update document mongoose sends: the given paths through the schema's
\* setters, and updatedAt from the timestamps option.
ApplyUpdates(d, updates, ts) ==
    [d EXCEPT !.text = IF updates.text.t = "undefined" THEN @
                       ELSE SchemaText(updates.text).s,
              !.completed = IF updates.completed.t = "undefined" THEN @
                            ELSE updates.completed.b,
              !.updatedAt = ts]

\* runValidators: true
UpdateValid(updates) ==
    updates.text.t = "undefined" \/ SchemaText(updates.text).ok

\* Todo.findByIdAndUpdate(id, updates, { new: true, runValidators: true })
FindByIdAndUpdate(store, idp, updates, ts) ==
    IF ~idp.wellFormed
    THEN [outcome |-> "throws", err |-> "CastError", doc |-> Null,
          store |-> store]
    ELSE IF ~UpdateValid(updates)
    THEN [outcome |-> "throws", err |-> "ValidationError", doc |-> Null,
          store |-> store]
    ELSE IF Stored(store, idp.oid) = {}
    THEN [outcome |-> "null", err |-> "none", doc |-> Null, store |-> store]
    ELSE LET d == CHOOSE x \in Stored(store, idp.oid) : TRUE
             e == ApplyUpdates(d, updates, ts)
         IN  [outcome |-> "doc", err |-> "none", doc |-> e,
              store |-> (store \ {d}) \cup {e}]

\* Todo.findById(id) in the place of findByIdAndDelete: the document is
\* found and stays.
FindByIdKeeping(store, idp) ==
    IF ~idp.wellFormed
    THEN [outcome |-> "throws", err |-> "CastError", doc |-> Null,
          store |-> store]
    ELSE IF Stored(store, idp.oid) = {}
    THEN [outcome |-> "null", err |-> "none", doc |-> Null, store |-> store]
    ELSE LET d == CHOOSE x \in Stored(store, idp.oid) : TRUE
         IN  [outcome |-> "doc", err |-> "none", doc |-> d, store |-> store]

\* Todo.findByIdAndDelete(id)
FindByIdAndDelete(store, idp) ==
    IF ~idp.wellFormed
    THEN [outcome |-> "throws", err |-> "CastError", doc |-> Null,
          store |-> store]
    ELSE IF Stored(store, idp.oid) = {}
    THEN [outcome |-> "null", err |-> "none", doc |-> Null, store |-> store]
    ELSE LET d == CHOOSE x \in Stored(store, idp.oid) : TRUE
         IN  [outcome |-> "doc", err |-> "none", doc |-> d,
              store |-> store \ {d}]

\* quotes.map(q => ({ text: q.text, author: q.author })): reading a property
\* of null is a TypeError.
MapQuotes(arr) ==
    IF \E i \in 1..Len(arr) : arr[i].t = "null"
    THEN [threw |-> TRUE, docs |-> <<>>]
    ELSE [threw |-> FALSE,
          docs |-> [i \in 1..Len(arr) |->
                       [text |-> arr[i].text, author |-> arr[i].author]]]

\* insertMany that skips validation.
InsertManyUnvalidated(docs) == TRUE

\* insertMany validates every document before it writes any.
InsertManyValid(docs) ==
    \A i \in 1..Len(docs) :
        SchemaText(docs[i].text).ok /\ SchemaAuthor(docs[i].author).ok

\* The documents insertMany builds, with identifiers from firstQid on.
InsertManyDocs(docs, firstQid, ts) ==
    [i \in 1..Len(docs) |->
        NewQuote(firstQid + i - 1, SchemaText(docs[i].text).s,
                 SchemaAuthor(docs[i].author).v, ts)]

\* Quote.insertMany(docs) when the database takes the first `written` of
\* them: an ordered insert, one write a document, outside any transaction.
InsertMany(store, docs, firstQid, ts, written) ==
    IF ~InsertManyValid(docs)
    THEN [outcome |-> "throws", err |-> "ValidationError", docs |-> <<>>,
          store |-> store]
    ELSE LET built == InsertManyDocs(docs, firstQid, ts) IN
         [outcome |-> IF written = Len(docs) THEN "doc" ELSE "throws",
          err |-> IF written = Len(docs) THEN "none" ELSE "StorageError",
          docs |-> built,
          store |-> store \cup {built[i] : i \in 1..written}]

\* Todo.create({ text })
TodoCreateOne(store, doc, oid, ts) ==
    IF ~SchemaText(doc.text).ok
    THEN [outcome |-> "throws", err |-> "ValidationError", doc |-> Null,
          store |-> store]
    ELSE LET d == NewTodo(oid, SchemaText(doc.text).s, ts)
         IN  [outcome |-> "doc", err |-> "none", doc |-> d,
              store |-> store \cup {d}]

\* Quote.create({ text, author })
QuoteCreateOne(store, doc, qid, ts) ==
    IF ~(SchemaText(doc.text).ok /\ SchemaAuthor(doc.author).ok)
    THEN [outcome |-> "throws", err |-> "ValidationError", doc |-> Null,
          store |-> store]
    ELSE LET q == NewQuote(qid, SchemaText(doc.text).s,
                           SchemaAuthor(doc.author).v, ts)
         IN  [outcome |-> "doc", err |-> "none", doc |-> q,
              store |-> store \cup {q}]

\* ------------------------------------------------------- handler positions
Idle == [pc |-> "idle"]

\* Awaiting the storage call `op`.
Pending(kind, req, op) ==
    [pc |-> "pending", kind |-> kind, req |-> req, op |-> op, ops |-> 1]

\* res.status(status).json(body) has been called; `logged` is the error
\* console.error printed ("none" when the handler printed nothing), `ops`
\* the storage calls the handler issued.
Resolved(kind, req, status, body, logged, ops) ==
    [pc |-> "resolved", kind |-> kind, req |-> req, status |-> status,
     body |-> body, logged |-> logged, ops |-> ops]

\* The handler's promise rejected outside any try: Express 4 (the "*" route
\* of line 181 is its syntax) drops the rejection and writes no response.
Unhandled(kind, req) ==
    [pc |-> "unhandled", kind |-> kind, req |-> req, ops |-> 0]

Message(m) == [message |-> m]

NoCreate == [some |-> FALSE]

\* ------------------------------------------------------- bootstrap
\* if (!MONGO_URI)
MissingMongoUri(e) == ~Truthy(e.MONGO_URI)

\* start() that calls app.listen(PORT) without awaiting the connection.
StartListeningAnyway(resolved) == [phase |-> "RUNNING", listening |-> TRUE]

\* start() after await mongoose.connect(MONGO_URI): app.listen(PORT) when it
\* resolved, the catch's process.exit(1) when it rejected.
StartAfterConnect(resolved) ==
    IF resolved THEN [phase |-> "RUNNING", listening |-> TRUE]
    ELSE [phase |-> "ABORTED", listening |-> FALSE]

Init ==
    /\ env \in {[MONGO_URI |-> Undefined], [MONGO_URI |-> Str(<<>>)],
                [MONGO_URI |-> Str(<<"m">>)]}
    /\ phase = "STARTING"
    /\ connects = 0
    /\ connection = "disconnected"
    /\ listening = FALSE
    /\ now = 0
    /\ todos = {}
    /\ quotes = {}
    /\ nextOid = 1
    /\ nextQid = 1
    /\ requests = [s \in Slots |-> Idle]
    /\ lastCreate = NoCreate
    /\ createdBefore = {}

data == <<now, todos, quotes, nextOid, nextQid, requests, lastCreate,
          createdBefore>>

\* The module body: the MONGO_URI check, then start() up to its await.
LoadModule ==
    /\ phase = "STARTING"
    /\ IF MissingMongoUri(env)
       THEN phase' = "ABORTED" /\ UNCHANGED <<connects, connection>>
       ELSE /\ phase' = "CONNECTING"
            /\ connects' = connects + 1
            /\ connection' = "connecting"
    /\ UNCHANGED <<env, listening, data>>

\* await mongoose.connect(MONGO_URI) resolved
ConnectResolved ==
    /\ phase = "CONNECTING"
    /\ connection' = "connected"
    /\ phase' = StartAfterConnect(TRUE).phase
    /\ listening' = StartAfterConnect(TRUE).listening
    /\ UNCHANGED <<env, connects, data>>

\* await mongoose.connect(MONGO_URI) rejected
ConnectRejected ==
    /\ phase = "CONNECTING"
    /\ connection' = "disconnected"
    /\ phase' = StartAfterConnect(FALSE).phase
    /\ listening' = StartAfterConnect(FALSE).listening
    /\ UNCHANGED <<env, connects, data>>

\* A millisecond passes.
Tick ==
    /\ phase = "RUNNING"
    /\ now < MaxClock
    /\ now' = now + 1
    /\ UNCHANGED <<env, phase, connects, connection, listening, todos, quotes,
                   nextOid, nextQid, requests, lastCreate, createdBefore>>

\* ------------------------------------------------------- todo routes
boot == <<env, phase, connects, connection, listening>>

\* A request is taken into the lowest free slot while the server listens.
Accepting(s) ==
    /\ phase = "RUNNING"
    /\ listening
    /\ requests[s].pc = "idle"
    /\ \A t \in Slots : t < s => requests[t].pc # "idle"

Put(s, r) == requests' = [requests EXCEPT ![s] = r]

\* const text = (req.body?.text || '').trim()
PostTodosText(body) == TrimOrThrow(body.text)

\* Slot t holds the POST /api/todos request that generated identifier a.
CreateInFlight(t, a) ==
    /\ requests[t].pc \in {"pending", "resolved"}
    /\ requests[t].kind = "PostTodos"
    /\ \/ requests[t].pc = "pending" /\ requests[t].op.oid = a
       \/ /\ requests[t].pc = "resolved"
          /\ requests[t].status = 201
          /\ requests[t].body.id = a

\* The identifiers whose POST /api/todos request is over.
CreatesOver ==
    {a \in 1..(nextOid - 1) : \A t \in Slots : ~CreateInFlight(t, a)}

\* app.post('/api/todos') up to await Todo.create({ text })
PostTodos(s, body) ==
    /\ Accepting(s)
    /\ LET t == PostTodosText(body) IN
       IF t.threw
       THEN /\ Put(s, Unhandled("PostTodos", body))
            /\ UNCHANGED <<nextOid, createdBefore>>
       ELSE IF t.text = <<>>
       THEN /\ Put(s, Resolved("PostTodos", body, 400,
                               Message("Text is required"), "none", 0))
            /\ UNCHANGED <<nextOid, createdBefore>>
       ELSE /\ nextOid <= MaxOid
            /\ Put(s, Pending("PostTodos", body,
                              [name |-> "create",
                               doc |-> [text |-> Str(t.text)],
                               oid |-> nextOid, ts |-> now]))
            /\ nextOid' = nextOid + 1
            /\ createdBefore' =
                   createdBefore \cup {<<a, nextOid>> : a \in CreatesOver}
    /\ lastCreate' = NoCreate
    /\ UNCHANGED <<boot, now, todos, quotes, nextQid>>

\* app.get('/api/todos') up to await Todo.find().sort(...)
GetTodos(s) ==
    /\ Accepting(s)
    /\ Put(s, Pending("GetTodos", Undefined, [name |-> "find"]))
    /\ UNCHANGED <<boot, now, todos, quotes, nextOid, nextQid, lastCreate,
                   createdBefore>>

\* app.patch without the Object.keys(updates).length === 0 check.
PatchUpdatesUnchecked(body) ==
    IF TypeOf(body.text) = "string" /\ Trim(body.text.s) = <<>>
    THEN [status |-> 400, message |-> "Text cannot be empty",
          updates |-> [text |-> Undefined, completed |-> Undefined]]
    ELSE [status |-> 0, message |-> "",
          updates |-> [text |-> IF TypeOf(body.text) = "string"
                                THEN Str(Trim(body.text.s)) ELSE Undefined,
                       completed |-> IF TypeOf(body.completed) = "boolean"
                                     THEN body.completed ELSE Undefined]]

\* The updates object app.patch builds, or the 400 it answers.
PatchUpdates(body) ==
    IF TypeOf(body.text) = "string" /\ Trim(body.text.s) = <<>>
    THEN [status |-> 400, message |-> "Text cannot be empty",
          updates |-> [text |-> Undefined, completed |-> Undefined]]
    ELSE LET u == [text |-> IF TypeOf(body.text) = "string"
                            THEN Str(Trim(body.text.s)) ELSE Undefined,
                   completed |-> IF TypeOf(body.completed) = "boolean"
                                 THEN body.completed ELSE Undefined]
         IN  IF u.text.t = "undefined" /\ u.completed.t = "undefined"
             THEN [status |-> 400, message |-> "No valid fields to update",
                   updates |-> u]
             ELSE [status |-> 0, message |-> "", updates |-> u]

\* app.patch('/api/todos/:id') up to await Todo.findByIdAndUpdate(...)
PatchTodo(s, idp, body) ==
    /\ Accepting(s)
    /\ LET v == PatchUpdates(body)
           req == [id |-> idp, body |-> body]
       IN  IF v.status = 400
           THEN Put(s, Resolved("PatchTodo", req, 400, Message(v.message),
                                "none", 0))
           ELSE Put(s, Pending("PatchTodo", req,
                               [name |-> "findByIdAndUpdate", id |-> idp,
                                updates |-> v.updates, ts |-> now]))
    /\ lastCreate' = NoCreate
    /\ UNCHANGED <<boot, now, todos, quotes, nextOid, nextQid, createdBefore>>

\* app.delete('/api/todos/:id') up to await Todo.findByIdAndDelete(id)
DeleteTodo(s, idp) ==
    /\ Accepting(s)
    /\ Put(s, Pending("DeleteTodo", [id |-> idp],
                      [name |-> "findByIdAndDelete", id |-> idp]))
    /\ lastCreate' = NoCreate
    /\ UNCHANGED <<boot, now, todos, quotes, nextOid, nextQid, createdBefore>>

\* ------------------------------------------------------- quote route
\* Values a quote's text and author arrive as.
QuoteTextValues == {Undefined, Str(<<" ">>), Str(<<" ", "a">>), Num(5)}

AuthorValues == {Str(<<"z", " ">>)}

\* An element of the quotes array: an object, or null.
QuoteElements ==
    {Null} \cup {[t |-> "object", text |-> v, author |-> a] :
                    v \in QuoteTextValues, a \in AuthorValues}

\* Bodies of POST /api/quotes: {text, author} or {quotes: [...]}.
QuoteBodies ==
    {[text |-> v, author |-> a, quotes |-> Undefined] :
        v \in QuoteTextValues, a \in AuthorValues}
    \cup {[text |-> Undefined, author |-> Undefined,
           quotes |-> [t |-> "array", a |-> arr]] :
             arr \in UNION {[1..n -> QuoteElements] : n \in 0..MaxBatch}}

IsArray(v) == v.t = "array"

\* app.post('/api/quotes') up to its await
PostQuotes(s, body) ==
    /\ Accepting(s)
    /\ IF IsArray(body.quotes)
       THEN LET m == MapQuotes(body.quotes.a) IN
            IF m.threw
            THEN /\ Put(s, Resolved("PostQuotes", body, 500,
                                    Message("Failed to insert quotes"),
                                    "TypeError", 0))
                 /\ UNCHANGED nextQid
            ELSE /\ nextQid + Len(m.docs) - 1 <= MaxQuotes
                 /\ Put(s, Pending("PostQuotes", body,
                                   [name |-> "insertMany", docs |-> m.docs,
                                    firstQid |-> nextQid, ts |-> now]))
                 /\ nextQid' = nextQid + Len(m.docs)
       ELSE LET t == TrimOrThrow(body.text) IN
            IF t.threw
            THEN /\ Put(s, Resolved("PostQuotes", body, 500,
                                    Message("Failed to insert quotes"),
                                    "TypeError", 0))
                 /\ UNCHANGED nextQid
            ELSE IF t.text = <<>>
            THEN /\ Put(s, Resolved("PostQuotes", body, 400,
                                    Message("Text is required"), "none", 0))
                 /\ UNCHANGED nextQid
            ELSE /\ nextQid <= MaxQuotes
                 /\ Put(s, Pending("PostQuotes", body,
                                   [name |-> "createQuote",
                                    doc |-> [text |-> Str(t.text),
                                             author |-> body.author],
                                    qid |-> nextQid, ts |-> now]))
                 /\ nextQid' = nextQid + 1
    /\ lastCreate' = NoCreate
    /\ UNCHANGED <<boot, now, todos, quotes, nextOid, createdBefore>>

\* ------------------------------------------------------- awaited calls
Awaiting(s, name) ==
    /\ phase = "RUNNING"
    /\ requests[s].pc = "pending"
    /\ requests[s].op.name = name

\* The message of each handler's catch.
CatchMessage(kind) ==
    CASE kind = "PostQuotes" -> "Failed to insert quotes"
      [] kind = "GetTodos" -> "Failed to fetch todos"
      [] kind = "PostTodos" -> "Failed to create todo"
      [] kind = "PatchTodo" -> "Failed to update todo"
      [] kind = "DeleteTodo" -> "Failed to delete todo"

\* The handler's catch: console.error(err), res.status(500).json(...)
Caught(r, err) ==
    Resolved(r.kind, r.req, 500, Message(CatchMessage(r.kind)), err, r.ops)

\* await Todo.create({ text }) settles: 201 or the catch
TodoCreate(s) ==
    /\ Awaiting(s, "create")
    /\ LET r == requests[s]
           u == TodoCreateOne(todos, r.op.doc, r.op.oid, r.op.ts)
       IN  /\ todos' = u.store
           /\ Put(s, IF u.outcome = "throws" THEN Caught(r, u.err)
                     ELSE Resolved(r.kind, r.req, 201, u.doc, "none", r.ops))
           /\ lastCreate' = IF u.outcome = "throws" THEN NoCreate
                            ELSE [some |-> TRUE, before |-> todos,
                                  doc |-> u.doc, text |-> r.req.text]
    /\ UNCHANGED <<boot, now, quotes, nextOid, nextQid, createdBefore>>

\* await Todo.find().sort({ createdAt: -1 }) resolves: res.json(todos)
TodoFind(s) ==
    /\ Awaiting(s, "find")
    /\ \E listing \in SortedByCreatedAtDesc(todos) :
           Put(s, Resolved("GetTodos", requests[s].req, 200, listing, "none",
                           requests[s].ops))
    /\ UNCHANGED <<boot, now, todos, quotes, nextOid, nextQid, lastCreate,
                   createdBefore>>

\* await Todo.findByIdAndUpdate(...) settles: 200, 404 or the catch
TodoFindByIdAndUpdate(s) ==
    /\ Awaiting(s, "findByIdAndUpdate")
    /\ LET r == requests[s]
           u == FindByIdAndUpdate(todos, r.op.id, r.op.updates, r.op.ts)
       IN  /\ todos' = u.store
           /\ Put(s, CASE u.outcome = "throws" -> Caught(r, u.err)
                       [] u.outcome = "null" ->
                            Resolved(r.kind, r.req, 404,
                                     Message("Todo not found"), "none", r.ops)
                       [] OTHER ->
                            Resolved(r.kind, r.req, 200, u.doc, "none", r.ops))
    /\ lastCreate' = NoCreate
    /\ UNCHANGED <<boot, now, quotes, nextOid, nextQid, createdBefore>>

\* await Todo.findByIdAndDelete(id) settles: 200, 404 or the catch
TodoFindByIdAndDelete(s) ==
    /\ Awaiting(s, "findByIdAndDelete")
    /\ LET r == requests[s]
           u == FindByIdAndDelete(todos, r.op.id)
       IN  /\ todos' = u.store
           /\ Put(s, CASE u.outcome = "throws" -> Caught(r, u.err)
                       [] u.outcome = "null" ->
                            Resolved(r.kind, r.req, 404,
                                     Message("Todo not found"), "none", r.ops)
                       [] OTHER ->
                            Resolved(r.kind, r.req, 200,
                                     [message |-> "Todo deleted",
                                      id |-> r.req.id], "none", r.ops))
    /\ lastCreate' = NoCreate
    /\ UNCHANGED <<boot, now, quotes, nextOid, nextQid, createdBefore>>

\* await Quote.create({ text: t, author }) settles: 201 or the catch
QuoteCreate(s) ==
    /\ Awaiting(s, "createQuote")
    /\ LET r == requests[s]
           u == QuoteCreateOne(quotes, r.op.doc, r.op.qid, r.op.ts)
       IN  /\ quotes' = u.store
           /\ Put(s, IF u.outcome = "throws" THEN Caught(r, u.err)
                     ELSE Resolved(r.kind, r.req, 201, u.doc, "none", r.ops))
    /\ lastCreate' = NoCreate
    /\ UNCHANGED <<boot, now, todos, nextOid, nextQid, createdBefore>>

\* await Quote.insertMany(...) settles: 201 or the catch.  With documents to
\* write, the database may fail at any of the writes.
QuoteInsertMany(s) ==
    /\ Awaiting(s, "insertMany")
    /\ LET r == requests[s] IN
       \E written \in 0..Len(r.op.docs) :
           LET u == InsertMany(quotes, r.op.docs, r.op.firstQid, r.op.ts,
                               written)
           IN  /\ quotes' = u.store
               /\ Put(s, IF u.outcome = "throws" THEN Caught(r, u.err)
                         ELSE Resolved(r.kind, r.req, 201, u.docs, "none",
                                       r.ops))
    /\ lastCreate' = NoCreate
    /\ UNCHANGED <<boot, now, todos, nextOid, nextQid, createdBefore>>

\* An awaited single-document call rejects because the database failed: the
\* collection is as it was, and the handler's catch answers.
StorageThrows(s) ==
    /\ phase = "RUNNING"
    /\ requests[s].pc = "pending"
    /\ requests[s].op.name # "insertMany"
    /\ Put(s, Caught(requests[s], "StorageError"))
    /\ lastCreate' = NoCreate
    /\ UNCHANGED <<boot, now, todos, quotes, nextOid, nextQid, createdBefore>>

\* ------------------------------------------------------- after the handler
\* The response reaches the client and the request is over.
Respond(s) ==
    /\ phase = "RUNNING"
    /\ requests[s].pc = "resolved"
    /\ Put(s, Idle)
    /\ UNCHANGED <<boot, now, todos, quotes, nextOid, nextQid, lastCreate,
                   createdBefore>>

\* No response comes: the client gives the request up.
Abandon(s) ==
    /\ phase = "RUNNING"
    /\ requests[s].pc = "unhandled"
    /\ Put(s, Idle)
    /\ UNCHANGED <<boot, now, todos, quotes, nextOid, nextQid, lastCreate,
                   createdBefore>>

\* Node 15 and later end the process on an unhandled rejection.
UnhandledRejection ==
    /\ phase = "RUNNING"
    /\ \E s \in Slots : requests[s].pc = "unhandled"
    /\ phase' = "CRASHED"
    /\ listening' = FALSE
    /\ connection' = "disconnected"
    /\ UNCHANGED <<env, connects, data>>

\* ------------------------------------------------------- specification
\* Bodies of POST /api/todos.
PostTodosBodies == {[text |-> v] : v \in TextValues}

\* Bodies of PATCH /api/todos/:id.
PatchTodoBodies ==
    {[text |-> v, completed |-> c] : v \in PatchTextValues,
                                      c \in CompletedValues}

\* The bodies that requests in flight together carry: a todo to store and
\* one that makes the handler throw; a flag to set and nothing to set.
PostTodosBodiesRacing == {[text |-> Str(<<" ", "a", " ">>)], [text |-> Num(5)]}

PatchTodoBodiesRacing ==
    {[text |-> Undefined, completed |-> Undefined],
     [text |-> Undefined, completed |-> Bool(TRUE)]}

Boot ==
    \/ LoadModule
    \/ ConnectResolved
    \/ ConnectRejected

\* The todo routes, for requests in the slots S.
TodoRoutes(S, postBodies, patchBodies) ==
    \/ \E s \in S : \E body \in postBodies : PostTodos(s, body)
    \/ \E s \in S : GetTodos(s)
    \/ \E s \in S : \E idp \in IdParams : \E body \in patchBodies :
           PatchTodo(s, idp, body)
    \/ \E s \in S : \E idp \in IdParams : DeleteTodo(s, idp)
    \/ \E s \in S : TodoCreate(s)
    \/ \E s \in S : TodoFind(s)
    \/ \E s \in S : TodoFindByIdAndUpdate(s)
    \/ \E s \in S : TodoFindByIdAndDelete(s)

\* The quote route, for requests in the slots S.
QuoteRoutes(S) ==
    \/ \E s \in S : \E body \in QuoteBodies : PostQuotes(s, body)
    \/ \E s \in S : QuoteCreate(s)
    \/ \E s \in S : QuoteInsertMany(s)

Settle(S) ==
    \/ \E s \in S : StorageThrows(s)
    \/ \E s \in S : Respond(s)
    \/ \E s \in S : Abandon(s)
    \/ UnhandledRejection

\* The whole application, one request at a time.
Next ==
    \/ Boot
    \/ Tick
    \/ TodoRoutes({1}, PostTodosBodies, PatchTodoBodies)
    \/ QuoteRoutes({1})
    \/ Settle({1})

Spec == Init /\ [][Next]_vars

\* The todo routes with MaxInFlight requests in flight together.
NextTodos ==
    \/ Boot
    \/ Tick
    \/ TodoRoutes(Slots, PostTodosBodiesRacing, PatchTodoBodiesRacing)
    \/ Settle(Slots)

SpecTodos == Init /\ [][NextTodos]_vars

\* ------------------------------------------------------- properties
Ids(store) == {d.id : d \in store}

Range(seq) == {seq[i] : i \in 1..Len(seq)}

Spaces(n) == [i \in 1..n |-> " "]

\* t is raw without the white space around it, and is not empty.
TrimmedOf(raw, t) ==
    /\ t # <<>>
    /\ t[1] # " "
    /\ t[Len(t)] # " "
    /\ \E i, j \in 0..Len(raw) : raw = Spaces(i) \o t \o Spaces(j)

NonBlank(t) == \E i \in 1..Len(t) : t[i] # " "

\* This step is the route handler of a new request in slot s.
Enters(s) == requests[s].pc = "idle" /\ requests'[s].pc # "idle"

\* This step settles the storage call slot s awaits.
Settles(s) == requests[s].pc = "pending" /\ requests'[s].pc = "resolved"

\* This step writes the response of the request in slot s.
Answers(s) == requests[s].pc # "resolved" /\ requests'[s].pc = "resolved"

\* The listing holds the todos `c.before` as they were and one more, the
\* todo c's request created.
ListShowsCreate(listing, c) ==
    LET new == {i \in 1..Len(listing) : listing[i] \notin c.before} IN
    /\ Len(listing) = Cardinality(c.before) + 1
    /\ c.before \subseteq Range(listing)
    /\ Cardinality(new) = 1
    /\ \A i \in new :
        /\ listing[i].id \notin Ids(c.before)
        /\ listing[i].completed = FALSE
        /\ c.text.t = "string"
        /\ TrimmedOf(c.text.s, listing[i].text)

\* C1: a GET /api/todos that answers 200 while a successful POST /api/todos
\* is the last request before it lists the todos there were before the POST,
\* unchanged, and exactly one more, with completed = false and the POST's
\* text trimmed.
C1_CreateThenList ==
    [][\A s \in Slots :
          (/\ Settles(s)
           /\ requests[s].kind = "GetTodos"
           /\ requests'[s].status = 200
           /\ lastCreate.some)
          => ListShowsCreate(requests'[s].body, lastCreate)]_vars

C1_Witness ==
    \E s \in Slots :
        /\ requests[s].pc = "resolved"
        /\ requests[s].kind = "GetTodos"
        /\ requests[s].status = 200
        /\ lastCreate.some
        /\ lastCreate.before # {}
        /\ lastCreate.text.s = <<" ", "a", " ">>
        /\ Len(requests[s].body) = 2

\* C2: every stored quote and every stored todo has a text that is not
\* empty after trimming, and every stored todo's completed is a boolean.
C2_StoredTextNonBlank ==
    /\ \A d \in todos : NonBlank(d.text) /\ d.completed \in BOOLEAN
    /\ \A q \in quotes : NonBlank(q.text)

C2_Witness ==
    \E s \in Slots :
        /\ requests[s].pc = "resolved"
        /\ requests[s].kind = "PostQuotes"
        /\ IsArray(requests[s].req.quotes)
        /\ requests[s].status = 201
        /\ Cardinality(quotes) = 2
        /\ todos # {}

NoValidFields(body) ==
    TypeOf(body.text) # "string" /\ TypeOf(body.completed) # "boolean"

\* C3: a PATCH /api/todos/:id whose body has neither a string text nor a
\* boolean completed is answered 400 by the route handler itself: it issues
\* no storage call and the step leaves the todos as they are, whatever the
\* identifier.
C3_PatchWithoutFields ==
    [][\A s \in Slots :
          (/\ Enters(s)
           /\ requests'[s].kind = "PatchTodo"
           /\ NoValidFields(requests'[s].req.body))
          => /\ requests'[s].pc = "resolved"
             /\ requests'[s].status = 400
             /\ requests'[s].ops = 0
             /\ todos' = todos]_vars

C3_Witness ==
    \E s \in Slots :
        /\ requests[s].pc = "resolved"
        /\ requests[s].kind = "PatchTodo"
        /\ requests[s].status = 400
        /\ requests[s].req.body.text.t = "number"
        /\ requests[s].req.body.completed.t = "string"
        /\ requests[s].req.id.wellFormed
        /\ requests[s].req.id.oid \in Ids(todos)

\* The stored todos the :id parameter names.
Named(store, idp) == {d \in store : idp.wellFormed /\ d.id = idp.oid}

C5_MalformedIdIsValidationError ==
    [][\A s \in Slots :
          (Answers(s) /\ requests'[s].kind \in {"PatchTodo", "DeleteTodo"})
          => /\ ~requests'[s].req.id.wellFormed
                => requests'[s].status \in 400..499 /\ todos' = todos
             /\ requests'[s].status = 500
                => requests'[s].logged = "StorageError"]_vars

\* C6: a POST /api/quotes with {quotes: [q1..qn]} either stores n new quotes
\* and answers 201, or stores none and answers an error.
C6_BatchAllOrNothing ==
    [][\A s \in Slots :
          (/\ Answers(s)
           /\ requests'[s].kind = "PostQuotes"
           /\ IsArray(requests'[s].req.quotes))
          => \/ /\ requests'[s].status = 201
                /\ quotes \subseteq quotes'
                /\ Cardinality(quotes' \ quotes) =
                       Len(requests'[s].req.quotes.a)
             \/ /\ requests'[s].status >= 400
                /\ quotes' = quotes]_vars

\* C7: a GET /api/todos that answers 200 lists b before a whenever a's POST
\* was over before b's began.
C7_NewestFirst ==
    \A s \in Slots :
        (/\ requests[s].pc = "resolved"
         /\ requests[s].kind = "GetTodos"
         /\ requests[s].status = 200)
        => \A i, j \in 1..Len(requests[s].body) :
               <<requests[s].body[j].id, requests[s].body[i].id>>
                   \in createdBefore => i < j

BlankText(body) == TypeOf(body.text) = "string" /\ ~NonBlank(body.text.s)

\* The todo req names went from d to e and no other todo changed: e has d's
\* identifier and createdAt, the body's text trimmed if it is a string and
\* d's text otherwise, the body's completed if it is a boolean and d's
\* otherwise.
PatchApplied(old, new, req, answer) ==
    \E d \in old : \E e \in new :
        /\ d.id = req.id.oid
        /\ e.id = d.id
        /\ e.createdAt = d.createdAt
        /\ new \ {e} = old \ {d}
        /\ answer = e
        /\ IF TypeOf(req.body.text) = "string"
           THEN TrimmedOf(req.body.text.s, e.text)
           ELSE e.text = d.text
        /\ IF TypeOf(req.body.completed) = "boolean"
           THEN e.completed = req.body.completed.b
           ELSE e.completed = d.completed

\* C8: a PATCH /api/todos/:id that answers 200 changes, of the todo it names,
\* only the fields its body validly gives (and updatedAt), answers with that
\* todo and changes no other todo; a body whose text is a string that is
\* empty after trimming is answered 400 without a storage call and with the
\* todos as they were, whatever its completed.
C8_PatchFrame ==
    [][\A s \in Slots :
          /\ (/\ Settles(s)
              /\ requests[s].kind = "PatchTodo"
              /\ requests'[s].status = 200)
             => PatchApplied(todos, todos', requests[s].req,
                             requests'[s].body)
          /\ (/\ Enters(s)
              /\ requests'[s].kind = "PatchTodo"
              /\ BlankText(requests'[s].req.body))
             => /\ requests'[s].pc = "resolved"
                /\ requests'[s].status = 400
                /\ requests'[s].ops = 0
                /\ todos' = todos]_vars

C8_Witness ==
    \E s \in Slots :
        /\ requests[s].pc = "resolved"
        /\ requests[s].kind = "PatchTodo"
        /\ requests[s].status = 200
        /\ requests[s].req.body.text.t = "string"
        /\ requests[s].req.body.completed.t = "undefined"
        /\ requests[s].body.completed = TRUE
        /\ requests[s].body.text = <<"b">>
        /\ Cardinality(todos) = 2

\* C9: the server listens only with the storage connection made; without a
\* MONGO_URI nothing is connected to and nothing listens; mongoose.connect
\* is called at most once; RUNNING is entered only from the pending
\* connection, when it succeeds; a failed connection leads to ABORTED
\* without listening; STARTING leads nowhere but RUNNING and ABORTED, and
\* ABORTED is left never.
C9_Bootstrap ==
    [][/\ listening' => connection' = "connected" /\ phase' = "RUNNING"
       /\ env.MONGO_URI.t = "undefined"
          => /\ connects' = 0
             /\ connection' = "disconnected"
             /\ ~listening'
             /\ phase' \in {"STARTING", "ABORTED"}
       /\ connects' <= 1
       /\ phase' = "RUNNING" /\ phase # "RUNNING"
          => phase = "CONNECTING" /\ connection' = "connected"
       /\ phase = "CONNECTING" /\ connection' = "disconnected"
          => phase' = "ABORTED" /\ ~listening'
       /\ phase \in {"STARTING", "CONNECTING"}
          => phase' \in {"STARTING", "CONNECTING", "RUNNING", "ABORTED"}
       /\ phase = "ABORTED" => phase' = "ABORTED"]_vars

C9_Witness ==
    /\ phase = "ABORTED"
    /\ connects = 1
    /\ connection = "disconnected"
    /\ ~listening

\* C10, the parts a state shows: every request has issued at most one
\* storage call and none is left without a response; of two DELETEs of one
\* identifier at most one is answered 200; and a todo whose DELETE was
\* answered 200 is not stored.
C10_OneResponseEach ==
    \A s \in Slots :
        /\ requests[s].pc # "unhandled"
        /\ requests[s].pc # "idle" => requests[s].ops <= 1
        /\ (/\ requests[s].pc = "resolved"
            /\ requests[s].kind = "DeleteTodo"
            /\ requests[s].status = 200)
           => /\ requests[s].req.id.oid \notin Ids(todos)
              /\ \A t \in Slots \ {s} :
                    (/\ requests[t].pc = "resolved"
                     /\ requests[t].kind = "DeleteTodo"
                     /\ requests[t].status = 200)
                    => requests[t].req.id # requests[s].req.id

=============================================================================
